---- MODULE Spec2Model ----
(***************************************************************************)
(* Model of crates/vim/src/vim.rs: the global VimState (editor registry,   *)
(* active editor, enabled flag, mode), its two transitions switch_mode and *)
(* set_enabled, the synchronization pass sync_editor_options and the       *)
(* active-editor accessor update_active_editor.                            *)
(*                                                                         *)
(* Editors are owned by the host; VimState holds weak handles only.  An    *)
(* editor is a reference r \in Refs; life[r] says whether it is unborn,    *)
(* live (a weak handle to it upgrades) or dead; cfg[r] is the              *)
(* configuration bundle the editor holds.                                  *)
(***************************************************************************)
EXTENDS Integers, FiniteSets, Sequences, TLC

\* ---------------------------------------------------------------- bounds
NumEditors == 2
NumIds == 2

Refs == 1..NumEditors
Ids == 1..NumIds
None == 0

\* ------------------------------------------------------------------ Mode
ModeNormal == "Normal"
ModeInsert == "Insert"
Modes == {ModeNormal, ModeInsert}

\* <Mode as Default>::default(): the variant used while disabled, which the
\* specification requires to differ from the entry variant Normal.
DefaultMode == CHOOSE m \in Modes : m # ModeNormal

Block == "Block"
Bar == "Bar"
NoLayer == "NoLayer"

\* Mode::cursor_shape
cursor_shape(m) == IF m = ModeNormal THEN Block ELSE Bar

\* Mode::keymap_context_layer: the tag of the mode's binding layer
keymap_context_layer(m) == IF m = ModeNormal THEN "NormalLayer" ELSE "InsertLayer"

\* ---------------------------------------------------------------- state
VARIABLES
    editors,        \* VimState.editors: Ids -> Refs \cup {None} (None: no entry)
    active_editor,  \* VimState.active_editor: Refs \cup {None}
    enabled,        \* VimState.enabled
    mode,           \* VimState.mode
    life,           \* life[r]: editor r is "unborn", "live" or "dead"
    cfg,            \* cfg[r]: [cursor, clip, input, layer] held by editor r
    passes,         \* synchronization passes run by the most recent operation
    pushed,         \* <<S>>: the most recent pass wrote the editors S; <<>>: no pass yet
    invoked,        \* editors the closure of update_active_editor ran on, in order
    result,         \* Option returned by update_active_editor: <<>> None, <<x>> Some(x)
    recent          \* the run of switch_mode / set_enabled calls ending here (see Record)

vars == <<editors, active_editor, enabled, mode, life, cfg,
          passes, pushed, invoked, result, recent>>

\* The configuration a freshly created editor holds (the host's defaults:
\* bar cursor, no clipping, text input forwarded, no layer of this system).
EditorDefault == [cursor |-> Bar, clip |-> FALSE, input |-> TRUE, layer |-> NoLayer]

\* WeakViewHandle::upgrade
upgrade(r, lv) == IF r # None /\ lv[r] = "live" THEN r ELSE None

\* The closure without the `if self.enabled` test of line 83: the mode's
\* configuration is applied whether or not vim is enabled.
UpdateEditor_always_mode(en, md, c) ==
    LET shape == cursor_shape(md) IN
    [cursor |-> shape,
     clip   |-> (shape = Block),
     input  |-> (md = ModeInsert),
     layer  |-> keymap_context_layer(md)]

\* The closure without line 91: the disabled branch leaves clipping as it is.
UpdateEditor_keep_clip(en, md, c) ==
    LET shape == cursor_shape(md) IN
    IF en
    THEN [cursor |-> shape,
          clip   |-> (shape = Block),
          input  |-> (md = ModeInsert),
          layer  |-> keymap_context_layer(md)]
    ELSE [cursor |-> Bar, clip |-> c.clip, input |-> TRUE, layer |-> NoLayer]

\* The closure without line 92: the disabled branch leaves input forwarding
\* as it is.
UpdateEditor_keep_input(en, md, c) ==
    LET shape == cursor_shape(md) IN
    IF en
    THEN [cursor |-> shape,
          clip   |-> (shape = Block),
          input  |-> (md = ModeInsert),
          layer  |-> keymap_context_layer(md)]
    ELSE [cursor |-> Bar, clip |-> FALSE, input |-> c.input, layer |-> NoLayer]

\* The closure without line 93: the disabled branch leaves the layer installed.
UpdateEditor_keep_layer(en, md, c) ==
    LET shape == cursor_shape(md) IN
    IF en
    THEN [cursor |-> shape,
          clip   |-> (shape = Block),
          input  |-> (md = ModeInsert),
          layer  |-> keymap_context_layer(md)]
    ELSE [cursor |-> Bar, clip |-> FALSE, input |-> TRUE, layer |-> c.layer]

\* The closure with line 86 testing for Normal instead of Insert.
UpdateEditor_input_normal(en, md, c) ==
    LET shape == cursor_shape(md) IN
    IF en
    THEN [cursor |-> shape,
          clip   |-> (shape = Block),
          input  |-> (md = ModeNormal),
          layer  |-> keymap_context_layer(md)]
    ELSE [cursor |-> Bar, clip |-> FALSE, input |-> TRUE, layer |-> NoLayer]

\* The closure of sync_editor_options applied to one editor.
UpdateEditor(en, md, c) ==
    LET shape == cursor_shape(md) IN
    IF en
    THEN [cursor |-> shape,
          clip   |-> (shape = Block),
          input  |-> (md = ModeInsert),
          layer  |-> keymap_context_layer(md)]
    ELSE [cursor |-> Bar, clip |-> FALSE, input |-> TRUE, layer |-> NoLayer]

\* The loop leaving after the first entry it visits (`break` at the end of
\* the loop body, or .values().next() in place of the loop).
SyncLoop_first_only(order, en, md, reg, lv, c) ==
    IF order = <<>> THEN c
    ELSE LET e == upgrade(reg[Head(order)], lv)
         IN IF e # None THEN [c EXCEPT ![e] = UpdateEditor(en, md, c[e])] ELSE c

\* A pass that writes every editor that is alive, in the registry or not.
SyncLoop_all_live(order, en, md, reg, lv, c) ==
    [r \in Refs |-> IF lv[r] = "live" THEN UpdateEditor(en, md, c[r]) ELSE c[r]]

\* The loop with a set_enabled call interleaved between two entries: the
\* closure reads a flipped self.enabled from the second entry on.
RECURSIVE SyncLoop_interleaved(_, _, _, _, _, _)
SyncLoop_interleaved(order, en, md, reg, lv, c) ==
    IF order = <<>> THEN c
    ELSE LET e  == upgrade(reg[Head(order)], lv)
             c1 == IF e # None
                   THEN [c EXCEPT ![e] = UpdateEditor(en, md, c[e])]
                   ELSE c
         IN SyncLoop_interleaved(Tail(order), ~en, md, reg, lv, c1)

\* The loop leaving at the first handle that does not upgrade, as `?` or
\* `break` in place of `if let` would.
RECURSIVE SyncLoop_stop_at_dead(_, _, _, _, _, _)
SyncLoop_stop_at_dead(order, en, md, reg, lv, c) ==
    IF order = <<>> THEN c
    ELSE LET e == upgrade(reg[Head(order)], lv)
         IN IF e = None THEN c
            ELSE SyncLoop_stop_at_dead(Tail(order), en, md, reg, lv,
                                       [c EXCEPT ![e] = UpdateEditor(en, md, c[e])])

\* The loop of sync_editor_options over self.editors.values(), visiting the
\* entries in the order given by the sequence of ids `order`.
RECURSIVE SyncLoop(_, _, _, _, _, _)
SyncLoop(order, en, md, reg, lv, c) ==
    IF order = <<>> THEN c
    ELSE LET e  == upgrade(reg[Head(order)], lv)
             c1 == IF e # None
                   THEN [c EXCEPT ![e] = UpdateEditor(en, md, c[e])]
                   ELSE c
         IN SyncLoop(Tail(order), en, md, reg, lv, c1)

\* The editors one pass writes: registered and still upgradable.
LiveRegistered(reg, lv) == {r \in Refs : lv[r] = "live" /\ \E i \in Ids : reg[i] = r}

\* Iteration orders HashMap::values may produce: the keys present, in any
\* order (every permutation of the ids, cut down to the keys present).
RECURSIVE Perms(_)
Perms(keys) ==
    IF keys = {} THEN {<<>>}
    ELSE UNION {{<<k>> \o p : p \in Perms(keys \ {k})} : k \in keys}

AllOrders == Perms(Ids)

Orders(reg) ==
    LET Present(i) == reg[i] # None
    IN {SelectSeq(o, Present) : o \in AllOrders}

\* VimState::sync_editor_options: reads self.enabled and self.mode as the
\* caller has just set them, and visits the entries in some iteration order.
sync_editor_options ==
    /\ passes' = 1
    /\ pushed' = <<LiveRegistered(editors, life)>>
    /\ cfg' \in {SyncLoop(order, enabled', mode', editors, life, cfg) :
                    order \in Orders(editors)}

\* An operation that does not call sync_editor_options.
NoSync == /\ passes' = 0
          /\ pushed' = pushed
          /\ cfg' = cfg

\* History of the transition calls: `recent` holds the last (at most two)
\* calls of the current run as [op, arg, was, changed, altered]: `was` is the
\* mode before the call, `changed` says whether the call changed `enabled`
\* and `altered` whether it changed the configuration of some editor.  A
\* switch_mode call starts a run of its own; a set_enabled call extends a run
\* of set_enabled calls, and starts one when it changes `enabled`.  Every
\* other operation ends the run.
Call(op, arg) ==
    [op |-> op, arg |-> arg, was |-> mode,
     changed |-> (enabled' # enabled), altered |-> (cfg' # cfg)]

Last2(s) == IF Len(s) > 2 THEN SubSeq(s, Len(s) - 1, Len(s)) ELSE s

Record(op, arg) ==
    IF op = "set_enabled" /\ recent # <<>> /\ recent[Len(recent)].op = "set_enabled"
    THEN Last2(Append(recent, Call(op, arg)))
    ELSE IF op = "switch_mode" \/ enabled' # enabled
         THEN <<Call(op, arg)>>
         ELSE <<>>

\* A Default impl that starts enabled.
Init_enabled ==
    /\ editors = [i \in Ids |-> None]
    /\ active_editor = None
    /\ enabled = TRUE
    /\ mode = DefaultMode
    /\ life = [r \in Refs |-> "unborn"]
    /\ cfg = [r \in Refs |-> EditorDefault]
    /\ passes = 0
    /\ pushed = <<>>
    /\ invoked = <<>>
    /\ result = <<>>
    /\ recent = <<>>

Init ==
    /\ editors = [i \in Ids |-> None]
    /\ active_editor = None
    /\ enabled = FALSE
    /\ mode = DefaultMode
    /\ life = [r \in Refs |-> "unborn"]
    /\ cfg = [r \in Refs |-> EditorDefault]
    /\ passes = 0
    /\ pushed = <<>>
    /\ invoked = <<>>
    /\ result = <<>>
    /\ recent = <<>>

\* switch_mode with an unchanged-value guard like the one of set_enabled.
switch_mode_guarded(m) ==
    /\ UNCHANGED <<editors, active_editor, life>>
    /\ invoked' = <<>>
    /\ result' = <<>>
    /\ IF mode # m
       THEN /\ mode' = m
            /\ enabled' = enabled
            /\ sync_editor_options
       ELSE /\ UNCHANGED <<enabled, mode>>
            /\ NoSync
    /\ recent' = Record("switch_mode", m)

\* VimState::switch_mode
switch_mode(m) ==
    /\ UNCHANGED <<editors, active_editor, life>>
    /\ invoked' = <<>>
    /\ result' = <<>>
    /\ mode' = m
    /\ enabled' = enabled
    /\ sync_editor_options
    /\ recent' = Record("switch_mode", m)

\* set_enabled without the `if enabled` test of line 70: mode is set to
\* Mode::normal() on disabling too.
set_enabled_always_normal(v) ==
    /\ UNCHANGED <<editors, active_editor, life>>
    /\ invoked' = <<>>
    /\ result' = <<>>
    /\ IF enabled # v
       THEN /\ enabled' = v
            /\ mode' = ModeNormal
            /\ sync_editor_options
       ELSE /\ UNCHANGED <<enabled, mode>>
            /\ NoSync
    /\ recent' = Record("set_enabled", v)

\* set_enabled without the `if enabled` block of lines 70-72: mode is left at
\* the default Mode on enabling.
set_enabled_no_normal(v) ==
    /\ UNCHANGED <<editors, active_editor, life>>
    /\ invoked' = <<>>
    /\ result' = <<>>
    /\ IF enabled # v
       THEN /\ enabled' = v
            /\ mode' = DefaultMode
            /\ sync_editor_options
       ELSE /\ UNCHANGED <<enabled, mode>>
            /\ NoSync
    /\ recent' = Record("set_enabled", v)

\* set_enabled without the `self.enabled != enabled` guard of line 67.
set_enabled_no_guard(v) ==
    /\ UNCHANGED <<editors, active_editor, life>>
    /\ invoked' = <<>>
    /\ result' = <<>>
    /\ enabled' = v
    /\ mode' = IF v THEN ModeNormal ELSE DefaultMode
    /\ sync_editor_options
    /\ recent' = Record("set_enabled", v)

\* set_enabled without the reset of line 69: disabling keeps the mode.
set_enabled_no_reset(v) ==
    /\ UNCHANGED <<editors, active_editor, life>>
    /\ invoked' = <<>>
    /\ result' = <<>>
    /\ IF enabled # v
       THEN /\ enabled' = v
            /\ mode' = IF v THEN ModeNormal ELSE mode
            /\ sync_editor_options
       ELSE /\ UNCHANGED <<enabled, mode>>
            /\ NoSync
    /\ recent' = Record("set_enabled", v)

\* set_enabled with sync_editor_options called after the `if` block instead
\* of inside it.
set_enabled_resync(v) ==
    /\ UNCHANGED <<editors, active_editor, life>>
    /\ invoked' = <<>>
    /\ result' = <<>>
    /\ IF enabled # v
       THEN /\ enabled' = v
            /\ mode' = IF v THEN ModeNormal ELSE DefaultMode
       ELSE UNCHANGED <<enabled, mode>>
    /\ sync_editor_options
    /\ recent' = Record("set_enabled", v)

\* VimState::set_enabled
set_enabled(v) ==
    /\ UNCHANGED <<editors, active_editor, life>>
    /\ invoked' = <<>>
    /\ result' = <<>>
    /\ IF enabled # v
       THEN /\ enabled' = v
            /\ mode' = IF v THEN ModeNormal ELSE DefaultMode
            /\ sync_editor_options
       ELSE /\ UNCHANGED <<enabled, mode>>
            /\ NoSync
    /\ recent' = Record("set_enabled", v)

\* register that inserts only when the id has no entry yet (entry().or_insert
\* in place of insert): an existing entry is kept.
register_keep_first(id, r) ==
    /\ life[r] = "live"
    /\ \A j \in Ids : editors[j] = r => j = id
    /\ editors[id] # None \/ \A j \in Ids : j < id => editors[j] # None
    /\ editors' = IF editors[id] = None THEN [editors EXCEPT ![id] = r] ELSE editors
    /\ NoSync
    /\ recent' = <<>>
    /\ invoked' = <<>>
    /\ result' = <<>>
    /\ UNCHANGED <<active_editor, enabled, mode, life>>

\* register(id, editor_ref) of the editor registry: insert or overwrite the
\* entry for id; no synchronization pass.  The handle is taken from a live
\* editor and id is that editor's stable identifier, so an editor is never
\* held under two ids at once; two editors may come with the same id, and
\* the later registration then overwrites the earlier.  Identifiers are
\* handed out in increasing order.
register(id, r) ==
    /\ life[r] = "live"
    /\ \A j \in Ids : editors[j] = r => j = id
    /\ editors[id] # None \/ \A j \in Ids : j < id => editors[j] # None
    /\ editors' = [editors EXCEPT ![id] = r]
    /\ NoSync
    /\ recent' = <<>>
    /\ invoked' = <<>>
    /\ result' = <<>>
    /\ UNCHANGED <<active_editor, enabled, mode, life>>

\* set_active that ignores None: the last focused editor stays active.
set_active_ignore_none(a) ==
    /\ a # None => life[a] = "live"
    /\ active_editor' = IF a # None THEN a ELSE active_editor
    /\ NoSync
    /\ recent' = <<>>
    /\ invoked' = <<>>
    /\ result' = <<>>
    /\ UNCHANGED <<editors, enabled, mode, life>>

\* set_active(editor_ref_or_none) of the editor registry.
set_active(a) ==
    /\ a # None => life[a] = "live"
    /\ active_editor' = a
    /\ NoSync
    /\ recent' = <<>>
    /\ invoked' = <<>>
    /\ result' = <<>>
    /\ UNCHANGED <<editors, enabled, mode, life>>

\* Closures handed to update_active_editor: each reads one field of the
\* editor it is run on and returns it.
Fns == {"cursor", "layer"}
Apply(fn, c) == IF fn = "cursor" THEN c.cursor ELSE c.layer

\* .and_then(|ae| ae.upgrade(cx)).map(|ae| ae.update(cx, update)): the
\* editors the closure runs on, and the Option returned (<<>> is None,
\* <<x>> is Some(x)).
\* The accessor without the upgrade of line 57: the closure runs on whatever
\* the active reference names.
ActiveCalls_no_upgrade(ae, lv) == IF ae # None THEN <<ae>> ELSE <<>>

ActiveCalls(ae, lv) ==
    LET e == upgrade(ae, lv) IN IF e # None THEN <<e>> ELSE <<>>

ActiveResult(fn, ae, lv, c) ==
    LET e == upgrade(ae, lv) IN IF e # None THEN <<Apply(fn, c[e])>> ELSE <<>>

\* VimState::update_active_editor
update_active_editor(fn) ==
    /\ invoked' = ActiveCalls(active_editor, life)
    /\ result' = ActiveResult(fn, active_editor, life, cfg)
    /\ NoSync
    /\ recent' = <<>>
    /\ UNCHANGED <<editors, active_editor, enabled, mode, life>>

\* The host destroys editor r: weak handles to it stop upgrading.  The
\* registry and the active reference keep their (now dead) handles.
release(r) ==
    /\ life[r] = "live"
    /\ life' = [life EXCEPT ![r] = "dead"]
    /\ NoSync
    /\ recent' = <<>>
    /\ invoked' = <<>>
    /\ result' = <<>>
    /\ UNCHANGED <<editors, active_editor, enabled, mode>>

\* The host creates the next editor surface, with the host's defaults.
create(r) ==
    /\ life[r] = "unborn"
    /\ \A q \in Refs : q < r => life[q] # "unborn"
    /\ life' = [life EXCEPT ![r] = "live"]
    /\ NoSync
    /\ recent' = <<>>
    /\ invoked' = <<>>
    /\ result' = <<>>
    /\ UNCHANGED <<editors, active_editor, enabled, mode>>

Create == \E r \in Refs : create(r)

SwitchMode == \E m \in Modes : switch_mode(m)

SetEnabled == \E v \in BOOLEAN : set_enabled(v)

Register == \E id \in Ids, r \in Refs : register(id, r)

SetActive == \E a \in Refs \cup {None} : set_active(a)

UpdateActiveEditor == \E fn \in Fns : update_active_editor(fn)

Release == \E r \in Refs : release(r)

Next ==
    \/ SwitchMode
    \/ SetEnabled
    \/ Register
    \/ SetActive
    \/ UpdateActiveEditor
    \/ Release
    \/ Create

Spec == Init /\ [][Next]_vars

\* ------------------------------------------------------------ properties
\* The configuration bundles of vim.rs lines 84-93, written out.
DisabledConfig == [cursor |-> Bar, clip |-> FALSE, input |-> TRUE, layer |-> NoLayer]
NormalConfig == [cursor |-> Block, clip |-> TRUE, input |-> FALSE, layer |-> "NormalLayer"]
InsertConfig == [cursor |-> Bar, clip |-> FALSE, input |-> TRUE, layer |-> "InsertLayer"]

Live(r) == life[r] = "live"
LastCall == recent[Len(recent)]
\* The editors the most recent synchronization pass wrote.
Pushed == IF pushed = <<>> THEN {} ELSE pushed[1]
\* A registry entry whose weak reference no longer resolves.
DeadEntry == \E i \in Ids : editors[i] # None /\ life[editors[i]] = "dead"

\* C1: a state-changing set_enabled(false) directly followed by
\* set_enabled(true) leaves mode = Normal, whatever mode the preceding
\* switch_mode calls had set before the disable.
C1_DisableEnableResetsMode ==
    (/\ Len(recent) = 2
     /\ recent[1].op = "set_enabled" /\ recent[1].arg = FALSE /\ recent[1].changed
     /\ recent[2].op = "set_enabled" /\ recent[2].arg = TRUE)
    => (enabled /\ mode = ModeNormal)

\* C1 witness: Insert was current when vim was disabled, and the enable that
\* followed ended at Normal.
C1_Witness ==
    /\ Len(recent) = 2
    /\ recent[1].op = "set_enabled" /\ recent[1].arg = FALSE /\ recent[1].changed
    /\ recent[1].was = ModeInsert
    /\ recent[2].op = "set_enabled" /\ recent[2].arg = TRUE /\ recent[2].changed
    /\ enabled /\ mode = ModeNormal

\* C2: set_enabled(v) with enabled = v changes neither enabled, mode, the
\* registry, the active reference nor any editor's configuration and runs no
\* synchronization pass; of two set_enabled(v) calls in a row the second
\* changes nothing and runs no pass.
C2_SetEnabledSameValueNoOp ==
    /\ [][\A v \in BOOLEAN :
            (enabled = v /\ set_enabled(v)) =>
                (/\ UNCHANGED <<enabled, mode, editors, active_editor, cfg, life, pushed>>
                 /\ passes' = 0)]_vars
    /\ [](Len(recent) = 2 /\ recent[1].arg = recent[2].arg
            => (passes = 0 /\ ~recent[2].changed /\ ~recent[2].altered))

\* C2 witness: set_enabled(true) twice in a row; the first call ran the pass,
\* the second ran none.
C2_Witness ==
    /\ Len(recent) = 2
    /\ recent[1].op = "set_enabled" /\ recent[1].arg = TRUE /\ recent[1].changed
    /\ recent[2].op = "set_enabled" /\ recent[2].arg = TRUE /\ ~recent[2].changed
    /\ passes = 0 /\ enabled /\ mode = ModeNormal

\* C3: set_enabled(v) with v # enabled sets enabled to v, sets mode to Normal
\* when v is true and to the default Mode when v is false, whatever the mode
\* was, and runs exactly one synchronization pass, which writes the
\* configuration of the new (enabled, mode) to every live registered editor.
C3_SetEnabledChange ==
    [][\A v \in BOOLEAN :
        (enabled # v /\ set_enabled(v)) =>
            (/\ enabled' = v
             /\ mode' = (IF v THEN ModeNormal ELSE DefaultMode)
             /\ passes' = 1
             /\ pushed' = <<LiveRegistered(editors, life)>>
             /\ \A r \in LiveRegistered(editors, life) :
                    cfg'[r] = UpdateEditor(v, mode', cfg[r]))]_vars

\* C3 witness: vim was disabled while Normal was current: mode fell back to
\* the default Mode and the pass rewrote a live registered editor.
C3_Witness ==
    /\ recent # <<>>
    /\ LastCall.op = "set_enabled" /\ LastCall.arg = FALSE /\ LastCall.changed
    /\ LastCall.was = ModeNormal /\ LastCall.altered
    /\ ~enabled /\ mode = DefaultMode /\ passes = 1
    /\ \E r \in Pushed : Live(r) /\ cfg[r] = DisabledConfig

\* C4 as stated: while enabled = false every live editor holds the disabled
\* configuration (bar cursor, no clipping, input forwarded, no layer).
C4_EveryLiveEditorPassthrough ==
    ~enabled => \A r \in Refs : Live(r) => cfg[r] = DisabledConfig

\* C4 amended: while enabled = false every live editor that the most recent
\* synchronization pass wrote (it was registered and live when that pass
\* ran) holds the disabled configuration, whatever mode was current before
\* disabling and whatever switch_mode calls were made while disabled.
C4_PushedEditorsPassthrough ==
    ~enabled => \A r \in Pushed : Live(r) => cfg[r] = DisabledConfig

\* C4 witness: disabled, with mode moved off the default by a switch_mode
\* call made while disabled, whose pass wrote a live registered editor: it
\* holds the disabled configuration, not Normal's.
C4_Witness ==
    /\ ~enabled /\ mode = ModeNormal /\ passes = 1
    /\ recent # <<>> /\ LastCall.op = "switch_mode" /\ LastCall.arg = ModeNormal
    /\ \E r \in Pushed : Live(r) /\ cfg[r] = DisabledConfig

\* C5 as stated: while enabled = true every live editor holds the
\* configuration of the current mode.
C5_EveryLiveEditorModeConfig ==
    enabled => \A r \in Refs : Live(r) =>
        /\ mode = ModeNormal => cfg[r] = NormalConfig
        /\ mode = ModeInsert => cfg[r] = InsertConfig

\* C5 amended: while enabled = true every live editor that the most recent
\* synchronization pass wrote holds the configuration of the current mode:
\* Block, clip, no input forwarding and Normal's layer for Normal; Bar, no
\* clip, input forwarding and Insert's layer for Insert.
C5_PushedEditorsModeConfig ==
    enabled => \A r \in Pushed : Live(r) =>
        /\ mode = ModeNormal => cfg[r] = NormalConfig
        /\ mode = ModeInsert => cfg[r] = InsertConfig

\* C5 witness: enabled in Insert mode with one live editor holding Insert's
\* configuration, after a switch from Normal that rewrote it.
C5_Witness ==
    /\ enabled /\ mode = ModeInsert
    /\ recent # <<>> /\ LastCall.op = "switch_mode" /\ LastCall.was = ModeNormal
    /\ LastCall.altered
    /\ \E r \in Pushed : Live(r) /\ cfg[r] = InsertConfig

\* The step is a switch_mode call or a state-changing set_enabled call (the
\* call history of the next state ends with one).
Transition ==
    /\ recent' # <<>>
    /\ \/ recent'[Len(recent')].op = "switch_mode"
       \/ recent'[Len(recent')].changed

\* C6: with a dead entry in the registry, switch_mode and set_enabled can
\* still be taken, and a transition updates (enabled, mode) as usual, writes
\* the new configuration to every live registered editor and to no other,
\* leaves every editor that is not live as it was and leaves the registry,
\* dead entry included, unchanged.
C6_DeadEntryTolerated ==
    /\ [](DeadEntry => /\ \A m \in Modes : ENABLED switch_mode(m)
                        /\ \A v \in BOOLEAN : ENABLED set_enabled(v))
    /\ [][(DeadEntry /\ Transition) =>
            LET call == recent'[Len(recent')] IN
            /\ editors' = editors
            /\ call.op = "switch_mode" => (mode' = call.arg /\ enabled' = enabled)
            /\ call.op = "set_enabled" =>
                    /\ enabled' = call.arg
                    /\ mode' = (IF call.arg THEN ModeNormal ELSE DefaultMode)
            /\ passes' = 1
            /\ pushed' = <<LiveRegistered(editors, life)>>
            /\ \A r \in Refs :
                    cfg'[r] = IF r \in LiveRegistered(editors, life)
                              THEN UpdateEditor(enabled', mode', cfg[r])
                              ELSE cfg[r]]_vars

\* C6 witness: a pass ran with a dead editor and a live editor both in the
\* registry; the live one was rewritten to Normal's configuration, the dead
\* one still holds what it held when it died.
C6_Witness ==
    /\ DeadEntry /\ passes = 1 /\ enabled /\ mode = ModeNormal
    /\ recent # <<>> /\ LastCall.altered
    /\ \E r \in Pushed : Live(r) /\ cfg[r] = NormalConfig
    /\ \E i \in Ids : /\ editors[i] # None
                        /\ life[editors[i]] = "dead"
                        /\ editors[i] \notin Pushed
                        /\ cfg[editors[i]] = DisabledConfig

\* C7: construction gives enabled = false, mode = the default Mode, an empty
\* registry, no active editor and no pass run; and as long as no pass has
\* run, enabled and mode keep these values and every editor holds the
\* configuration it was created with (text input forwarded).
C7_InitialState ==
    /\ (/\ enabled = FALSE
        /\ mode = DefaultMode
        /\ editors = [i \in Ids |-> None]
        /\ active_editor = None
        /\ passes = 0
        /\ pushed = <<>>)
    /\ [](pushed = <<>> =>
            /\ enabled = FALSE
            /\ mode = DefaultMode
            /\ passes = 0
            /\ \A r \in Refs : cfg[r] = EditorDefault /\ cfg[r].input)

\* C7 witness: before any pass, an editor has been created, registered and
\* focused, and still holds its initial configuration.
C7_Witness ==
    /\ pushed = <<>> /\ ~enabled /\ mode = DefaultMode
    /\ \E i \in Ids : /\ editors[i] # None
                        /\ Live(editors[i])
                        /\ active_editor = editors[i]
                        /\ cfg[editors[i]] = EditorDefault

\* C8: switch_mode(m) sets mode to m, leaves enabled (and the registry and
\* the active reference) unchanged and runs one synchronization pass that
\* writes the configuration of (enabled, m) to every live registered
\* editor, also when m is the current mode.
C8_SwitchModeAlwaysSyncs ==
    [][\A m \in Modes :
        switch_mode(m) =>
            (/\ mode' = m
             /\ UNCHANGED <<enabled, editors, active_editor>>
             /\ passes' = 1
             /\ pushed' = <<LiveRegistered(editors, life)>>
             /\ \A r \in LiveRegistered(editors, life) :
                    cfg'[r] = UpdateEditor(enabled, m, cfg[r]))]_vars

\* C8 witness: switch_mode(Normal) called while Normal was current rewrote
\* an editor that had been registered since the last pass.
C8_Witness ==
    /\ recent # <<>>
    /\ LastCall.op = "switch_mode" /\ LastCall.arg = ModeNormal
    /\ LastCall.was = ModeNormal /\ LastCall.altered
    /\ enabled /\ mode = ModeNormal /\ passes = 1
    /\ \A r \in LiveRegistered(editors, life) : cfg[r] = NormalConfig

\* C9: register changes no editor's configuration, nor enabled, nor mode, and
\* runs no pass; no step other than switch_mode or a state-changing
\* set_enabled changes any configuration, a set_enabled with the current
\* value included; and each switch_mode or state-changing set_enabled
\* writes the then-current configuration to every live registered editor.
C9_NoRetroactivePush ==
    [][/\ \A id \in Ids, r \in Refs :
            register(id, r) =>
                (UNCHANGED <<cfg, enabled, mode, pushed>> /\ passes' = 0)
       /\ \A v \in BOOLEAN :
            (enabled = v /\ set_enabled(v)) => (cfg' = cfg /\ passes' = 0)
       /\ ~Transition => cfg' = cfg
       /\ Transition => \A r \in LiveRegistered(editors, life) :
                            cfg'[r] = UpdateEditor(enabled', mode', cfg[r])]_vars

\* C9 witness: enabled in Normal mode, and a live editor registered after the
\* last pass still holds the configuration it was created with.
C9_Witness ==
    /\ enabled /\ mode = ModeNormal /\ passes = 0
    /\ \E r \in LiveRegistered(editors, life) :
            r \notin Pushed /\ cfg[r] = EditorDefault

\* C10: update_active_editor runs the closure exactly once, on the active
\* editor, and returns its result when the active reference is set and
\* upgrades, whether or not that editor is in the registry; otherwise it
\* runs nothing and returns None.  Either way enabled, mode, the registry
\* and the active reference are left as they were.
C10_UpdateActiveEditor ==
    [][\A fn \in Fns :
        update_active_editor(fn) =>
            (/\ (active_editor # None /\ Live(active_editor)) =>
                    (/\ invoked' = <<active_editor>>
                     /\ result' = <<Apply(fn, cfg[active_editor])>>)
             /\ (active_editor = None \/ ~Live(active_editor)) =>
                    (invoked' = <<>> /\ result' = <<>>)
             /\ UNCHANGED <<enabled, mode, editors, active_editor>>)]_vars

\* C10 witness: the closure ran once on a live active editor that is not in
\* the registry and its result came back.
C10_Witness ==
    /\ active_editor # None /\ Live(active_editor)
    /\ \A i \in Ids : editors[i] # active_editor
    /\ invoked = <<active_editor>>
    /\ Len(result) = 1

\* The editors the registry holds.
Registered(reg) == {reg[i] : i \in Ids} \ {None}

\* C11: register(id, r) sets the entry for id to r and leaves every other
\* entry alone, whether or not id had an entry; registering a pair the
\* registry already holds can be done again and leaves the registry as it
\* is; the registry holds one reference or none per id; the reference that
\* was overwritten is no longer in the registry, and the next pass visits
\* exactly the live editors the registry then holds.
C11_RegisterOverwrites ==
    /\ [](editors \in [Ids -> Refs \cup {None}])
    /\ [](\A id \in Ids : (editors[id] # None /\ Live(editors[id]))
                                => ENABLED register(id, editors[id]))
    /\ [][/\ \A id \in Ids, r \in Refs :
                register(id, r) =>
                   (/\ editors'[id] = r
                    /\ \A j \in Ids \ {id} : editors'[j] = editors[j]
                    /\ (editors[id] = r) => (editors' = editors)
                    /\ (editors[id] # r) => (editors[id] \notin Registered(editors')))
          /\ Transition => pushed' = <<LiveRegistered(editors, life)>>]_vars

\* C11 witness: a pass has just run over the registry; the editor that the
\* entry named before it was overwritten is alive, was not visited and still
\* carries the layer an earlier pass installed, while the editor that
\* replaced it was visited.
C11_Witness ==
    /\ passes = 1
    /\ \E q \in Refs : /\ Live(q) /\ q \notin Registered(editors) /\ q \notin Pushed
                        /\ cfg[q].layer # NoLayer
                        /\ \E r \in Pushed : Live(r) /\ cfg[r] # cfg[q]

\* C12: set_active can be called with None and with any live editor,
\* registered or not, whatever the active reference is; it sets the active
\* reference to its argument and leaves the registry, enabled, mode and
\* every editor's configuration unchanged, running no pass.
C12_SetActiveFrame ==
    /\ [](/\ ENABLED set_active(None)
          /\ \A a \in Refs : Live(a) => ENABLED set_active(a))
    /\ [][\A a \in Refs \cup {None} :
            set_active(a) =>
                (/\ active_editor' = a
                 /\ UNCHANGED <<editors, enabled, mode, cfg, life, pushed>>
                 /\ passes' = 0)]_vars

\* C12 witness: while enabled, a live editor that is not in the registry is
\* the active one and a live registered editor is not; the registered one
\* holds Normal's configuration, the active one what it was created with.
C12_Witness ==
    /\ enabled /\ passes = 0
    /\ active_editor # None /\ Live(active_editor)
    /\ active_editor \notin Registered(editors)
    /\ cfg[active_editor] = EditorDefault
    /\ \E r \in Registered(editors) :
            Live(r) /\ r # active_editor /\ cfg[r] = NormalConfig

C14_SwitchModeWhileDisabled ==
    [][\A m \in Modes :
        (~enabled /\ switch_mode(m)) =>
            (/\ mode' = m
             /\ enabled' = FALSE
             /\ passes' = 1
             /\ \A r \in LiveRegistered(editors, life) :
                    cfg'[r] = DisabledConfig)]_vars

\* C14 witness: switch_mode(Normal) was called while disabled with the
\* default Mode current: mode is Normal, enabled is still false, and a live
\* registered editor holds the disabled configuration, which is not Normal's.
C14_Witness ==
    /\ ~enabled /\ mode = ModeNormal /\ mode # DefaultMode /\ passes = 1
    /\ recent # <<>> /\ LastCall.op = "switch_mode" /\ LastCall.was = DefaultMode
    /\ \E r \in LiveRegistered(editors, life) :
            /\ r \in Pushed
            /\ cfg[r] = DisabledConfig
            /\ cfg[r] # UpdateEditor(TRUE, mode, cfg[r])

\* The configuration bundle that belongs to a value of (enabled, mode).
ConfigOf(en, md) ==
    IF ~en THEN DisabledConfig
    ELSE IF md = ModeNormal THEN NormalConfig ELSE InsertConfig

\* C15: right after a switch_mode or a state-changing set_enabled (the most
\* recent operation ran a pass), every editor that was registered and live
\* during it holds the configuration of the (enabled, mode) the transition
\* ended with, so any two of them hold the same configuration.
C15_OneSnapshotPerTransition ==
    passes = 1 =>
        /\ \A r \in Pushed : cfg[r] = ConfigOf(enabled, mode)
        /\ \A r, q \in Pushed : cfg[r] = cfg[q]

\* C15 witness: a switch to Insert while enabled rewrote two live registered
\* editors, and both hold Insert's configuration.
C15_Witness ==
    /\ passes = 1 /\ enabled /\ mode = ModeInsert
    /\ recent # <<>> /\ LastCall.op = "switch_mode" /\ LastCall.altered
    /\ Cardinality(Pushed) >= 2
    /\ \A r \in Pushed : cfg[r] = InsertConfig

\* C16: a step that runs a synchronization pass leaves the registry, the
\* active reference and the editors' lifetimes as they were, ends with the
\* enabled and mode its caller assigned before the pass, and changes the
\* configuration of no editor outside the live registered ones: not of a
\* dead one and not of a live unregistered one, the active editor included.
C16_PassWritesRegistryOnly ==
    [][Transition =>
        LET call == recent'[Len(recent')] IN
        /\ UNCHANGED <<editors, active_editor, life>>
        /\ call.op = "switch_mode" => (enabled' = enabled /\ mode' = call.arg)
        /\ call.op = "set_enabled" =>
                (enabled' = call.arg /\ mode' = IF call.arg THEN ModeNormal ELSE DefaultMode)
        /\ \A r \in Refs \ LiveRegistered(editors, life) : cfg'[r] = cfg[r]
        /\ (active_editor # None /\ active_editor \notin Registered(editors))
                => cfg'[active_editor] = cfg[active_editor]]_vars

\* C16 witness: a pass has just rewritten a registered editor to Normal's
\* configuration while the active editor, alive and not in the registry,
\* still holds the configuration it was created with.
C16_Witness ==
    /\ passes = 1 /\ enabled /\ mode = ModeNormal
    /\ recent # <<>> /\ LastCall.altered
    /\ active_editor # None /\ Live(active_editor)
    /\ active_editor \notin Registered(editors)
    /\ cfg[active_editor] = EditorDefault
    /\ \E r \in Pushed : cfg[r] = NormalConfig

\* The mode a layer tag belongs to.
ModeOfLayer(l) == CHOOSE m \in Modes : keymap_context_layer(m) = l

\* C17: every editor, alive or dead, registered or not, holds a consistent
\* bundle: it clips at line ends exactly when its cursor is Block; input
\* forwarding is off only together with a Block cursor and Normal's layer;
\* its layer slot holds no layer or the layer of one mode, and then the
\* cursor has the shape of that mode.
C17_ConsistentBundle ==
    \A r \in Refs :
        /\ cfg[r].clip <=> (cfg[r].cursor = Block)
        /\ ~cfg[r].input =>
                (cfg[r].cursor = Block /\ cfg[r].layer = keymap_context_layer(ModeNormal))
        /\ cfg[r].layer \in {NoLayer} \cup {keymap_context_layer(m) : m \in Modes}
        /\ cfg[r].layer # NoLayer =>
                cfg[r].cursor = cursor_shape(ModeOfLayer(cfg[r].layer))

\* C17 witness: vim is disabled; a dead editor still in the registry holds
\* Normal's bundle and a live editor displaced from the registry holds
\* Insert's.
C17_Witness ==
    /\ ~enabled
    /\ \E r \in Registered(editors) : life[r] = "dead" /\ cfg[r] = NormalConfig
    /\ \E q \in Refs : Live(q) /\ q \notin Registered(editors) /\ cfg[q] = InsertConfig

\* C18: in every reachable state, for every value of (enabled, mode) a pass
\* may be run with, all orders of visiting the registry entries give the
\* same configuration for every editor; and a step that is a transition
\* ends with the (enabled, mode) its call fixes and with the configurations
\* that each visiting order gives.
C18_OrderIndependent ==
    /\ [](LET orders == Orders(editors) IN
          \A en \in BOOLEAN, md \in Modes :
            Cardinality({SyncLoop(o, en, md, editors, life, cfg) : o \in orders}) = 1)
    /\ [][Transition =>
            LET call == recent'[Len(recent')] IN
            /\ enabled' = IF call.op = "set_enabled" THEN call.arg ELSE enabled
            /\ mode' = IF call.op = "switch_mode" THEN call.arg
                       ELSE IF call.arg THEN ModeNormal ELSE DefaultMode
            /\ \A o \in Orders(editors) :
                    cfg' = SyncLoop(o, enabled', mode', editors, life, cfg)]_vars

\* C18 witness: a pass has just run over a registry with two entries, which
\* can be visited in two orders, both editors alive; it changed
\* configurations and both editors hold Normal's.
C18_Witness ==
    /\ passes = 1 /\ enabled /\ mode = ModeNormal
    /\ recent # <<>> /\ LastCall.altered
    /\ Cardinality(Orders(editors)) >= 2
    /\ Cardinality(Pushed) >= 2
    /\ \A r \in Pushed : Live(r) /\ cfg[r] = NormalConfig

\* Editors that some pass has certainly written: those the most recent pass
\* wrote, and those holding anything but the configuration they were created
\* with (only a pass changes a configuration, and a pass writes registered
\* editors only).
Synchronized == Pushed \cup {r \in Refs : cfg[r] # EditorDefault}

\* The most recent operation was a state-changing set_enabled(false).
JustDisabled ==
    /\ passes = 1 /\ ~enabled
    /\ recent # <<>> /\ LastCall.op = "set_enabled" /\ LastCall.changed

\* C19 as stated: right after a state-changing set_enabled(false), every
\* live editor that was registered and synchronized at some time, also one
\* whose entry has been overwritten since, forwards input and has no layer.
C19_NoLiveEditorLeftModal ==
    JustDisabled =>
        \A r \in Synchronized :
            Live(r) => (cfg[r].input /\ cfg[r].layer = NoLayer)

\* C19 amended: a state-changing set_enabled(false) leaves every live editor
\* that is in the registry when it is called forwarding input and without a
\* layer; an editor that is not in the registry then, one whose entry was
\* overwritten included, is not written and keeps the input forwarding and
\* the layer it had.
C19_RegisteredEditorsLeftPlain ==
    [][(Transition /\ ~enabled' /\ recent'[Len(recent')].op = "set_enabled") =>
        /\ \A r \in LiveRegistered(editors, life) :
                cfg'[r].input /\ cfg'[r].layer = NoLayer
        /\ \A r \in Refs \ Registered(editors) :
                cfg'[r].input = cfg[r].input /\ cfg'[r].layer = cfg[r].layer]_vars

\* C19 witness: vim has just been disabled; the live registered editor went
\* from a layer and (in Normal) no input forwarding to input forwarded and
\* no layer, while a live editor displaced from the registry still has input
\* forwarding off and Normal's layer.
C19_Witness ==
    /\ JustDisabled /\ LastCall.altered /\ LastCall.was = ModeNormal
    /\ \E r \in Pushed : Live(r) /\ cfg[r].input /\ cfg[r].layer = NoLayer
    /\ \E q \in Refs : /\ Live(q) /\ q \notin Registered(editors)
                        /\ ~cfg[q].input /\ cfg[q].layer = "NormalLayer"
====
